---- MODULE Spec2Model ----
(***************************************************************************)
(* Cubic extension field arithmetic of                                     *)
(*   algebra/src/fields/models/cubic_extension.rs                          *)
(* F3 = F[X]/(X^3 - NONRESIDUE), instantiated over prime base fields Z/p.  *)
(*                                                                         *)
(* A parameterization P is a record                                        *)
(*   [MODULUS |-> p, NONRESIDUE |-> nr, FROBENIUS_COEFF_C1 |-> _,          *)
(*    FROBENIUS_COEFF_C2 |-> _]                                            *)
(* standing for an implementor of the CubicExtParameters trait whose       *)
(* BaseField = BasePrimeField = Z/p.  An element is a record               *)
(*   [c0 |-> _, c1 |-> _, c2 |-> _]  of base field values 0..p-1.          *)
(***************************************************************************)
EXTENDS Integers, Sequences, FiniteSets, TLC

(***************************************************************************)
(* Bounds of the model.                                                    *)
(***************************************************************************)
\* Base fields of the one-operand operations: the first MaxPrimeIdx primes.
MaxPrimeIdx == 6
\* Base fields of the two-operand operations.
MaxPrimeIdx2 == 3
\* Base fields of the three-operand ring and order laws.
MaxPrimeIdx3 == 3
\* Base fields of the bit decoder, and how far past three component widths
\* its input bit vectors go.
MaxPrimeIdxBits == 3
MaxExtraBits == 1

PrimeTable == <<2, 3, 5, 7, 11, 13, 17, 19>>

Min(m, n) == IF m < n THEN m ELSE n

PrimesUpTo(idx) == {PrimeTable[i] : i \in 1..Min(idx, Len(PrimeTable))}

(***************************************************************************)
(* The base field collaborator: the prime field Z/p in canonical           *)
(* representation 0..p-1.  Its implementation is outside the file; it is   *)
(* modelled from its interface contract.                                   *)
(***************************************************************************)
BaseField(P) == 0..(P.MODULUS - 1)

Fp_zero == 0

Fp_one(P) == 1 % P.MODULUS

Fp_is_zero(fe) == fe = 0

Fp_add(P, fa, fb) == (fa + fb) % P.MODULUS

Fp_sub(P, fa, fb) == (fa + P.MODULUS - fb) % P.MODULUS

Fp_neg(P, fe) == (P.MODULUS - fe) % P.MODULUS

Fp_double(P, fe) == (fe + fe) % P.MODULUS

Fp_mul(P, fa, fb) == (fa * fb) % P.MODULUS

Fp_square(P, fe) == (fe * fe) % P.MODULUS

RECURSIVE Fp_pow(_, _, _)
\* Square and multiply.
Fp_pow(P, fe, n) ==
    IF n = 0 THEN Fp_one(P)
    ELSE Fp_mul(P, IF n % 2 = 1 THEN fe ELSE Fp_one(P),
                Fp_square(P, Fp_pow(P, fe, n \div 2)))

\* inverse_in_place on the base field: zero has no inverse and is left as it is.
Fp_inverse_in_place(P, fe) ==
    IF Fp_is_zero(fe) THEN fe ELSE Fp_pow(P, fe, P.MODULUS - 2)

\* Parity of the canonical representative.
Fp_is_odd(fe) == fe % 2 = 1

\* Order of the canonical representatives.
Fp_cmp(fa, fb) ==
    IF fa < fb THEN "Less" ELSE IF fa = fb THEN "Equal" ELSE "Greater"

\* The Frobenius map of a prime field is the identity.
Fp_frobenius_map(P, fe, power) == fe

RECURSIVE BitLength(_)
BitLength(n) == IF n = 0 THEN 0 ELSE 1 + BitLength(n \div 2)

\* FpParameters::MODULUS_BITS of the base prime field.
MODULUS_BITS(P) == BitLength(P.MODULUS)

RECURSIVE BitsOf(_, _)
\* n as a big-endian bit vector of the given width.
BitsOf(n, width) ==
    IF width = 0 THEN <<>>
    ELSE Append(BitsOf(n \div 2, width - 1), n % 2 = 1)

RECURSIVE BitsValue(_)
\* The number a big-endian bit vector stands for.
BitsValue(bs) ==
    IF Len(bs) = 0 THEN 0
    ELSE 2 * BitsValue(SubSeq(bs, 1, Len(bs) - 1))
           + (IF bs[Len(bs)] THEN 1 ELSE 0)

\* Fixed-width bit encoding of a base field element.
Fp_write_bits(P, fe) == BitsOf(fe, MODULUS_BITS(P))

\* Decoding of a base field element: the width must be exact and the value
\* must be below the modulus.
Fp_read_bits(P, bs) ==
    IF Len(bs) /= MODULUS_BITS(P) THEN [tag |-> "Err", err |-> "InvalidLength"]
    ELSE IF BitsValue(bs) >= P.MODULUS
         THEN [tag |-> "Err", err |-> "InvalidFieldElement"]
         ELSE [tag |-> "Ok", val |-> BitsValue(bs)]

\* Bytes of one limb of the base field's big integer representation.
LimbBytes == 8

RECURSIVE BytesOf(_, _)
\* n as little-endian bytes.
BytesOf(n, width) ==
    IF width = 0 THEN <<>>
    ELSE <<n % 256>> \o BytesOf(n \div 256, width - 1)

RECURSIVE BytesValue(_)
BytesValue(bs) ==
    IF Len(bs) = 0 THEN 0
    ELSE bs[1] + 256 * BytesValue(SubSeq(bs, 2, Len(bs)))

\* ToBytes of the base field: appends the encoding to the writer.
Fp_write(P, fe, writer) == writer \o BytesOf(fe, LimbBytes)

\* FromBytes of the base field: consumes one encoding from the reader.
Fp_read(P, reader) ==
    IF Len(reader) < LimbBytes THEN [tag |-> "Err", err |-> "UnexpectedEof"]
    ELSE LET v == BytesValue(SubSeq(reader, 1, LimbBytes)) IN
         IF v >= P.MODULUS THEN [tag |-> "Err", err |-> "InvalidData"]
         ELSE [tag |-> "Ok", val |-> v,
               rest |-> SubSeq(reader, LimbBytes + 1, Len(reader))]

(***************************************************************************)
(* CubicExtParameters                                                      *)
(***************************************************************************)
\* The degree of the extension over the base prime field: a cubic extension
\* of a prime field.
DEGREE_OVER_BASE_PRIME_FIELD == 3

RECURSIVE IntPow(_, _)
IntPow(n, k) == IF k = 0 THEN 1 ELSE n * IntPow(n, k - 1)

\* FROBENIUS_COEFF_C1[k] = NONRESIDUE^((p^k - 1) / 3), k = 0, 1, 2, as the
\* implementors precompute it (0-based in the code, 1-based here).
FrobCoeffC1(p, nr) ==
    [k \in 1..3 |->
        Fp_pow([MODULUS |-> p], nr, (IntPow(p, k - 1) - 1) \div 3)]

\* FROBENIUS_COEFF_C2[k] = NONRESIDUE^((2 p^k - 2) / 3), k = 0, 1, 2.
FrobCoeffC2(p, nr) ==
    [k \in 1..3 |->
        Fp_pow([MODULUS |-> p], nr, (2 * IntPow(p, k - 1) - 2) \div 3)]

\* An implementor of CubicExtParameters over the prime field Z/p.
Parameters(p, nr) ==
    [MODULUS |-> p, NONRESIDUE |-> nr,
     FROBENIUS_COEFF_C1 |-> FrobCoeffC1(p, nr),
     FROBENIUS_COEFF_C2 |-> FrobCoeffC2(p, nr)]

\* Every parameterization over the given primes, with every NONRESIDUE value
\* (also the values for which X^3 - NONRESIDUE has a root).
Params(idx) ==
    UNION {{Parameters(p, nr) : nr \in 0..(p - 1)} : p \in PrimesUpTo(idx)}

\* Default body of the trait method: NONRESIDUE * fe.
mul_base_field_by_nonresidue(P, fe) == Fp_mul(P, P.NONRESIDUE, fe)

\* The hook as the cubic extensions of prime fields supply it: returns the
\* pair (c1, c2) after multiplication by the coefficients of the power.
mul_base_field_by_frob_coeff(P, c1, c2, power) ==
    [c1 |-> Fp_mul(P, c1, P.FROBENIUS_COEFF_C1[(power % 3) + 1]),
     c2 |-> Fp_mul(P, c2, P.FROBENIUS_COEFF_C2[(power % 3) + 1])]

(***************************************************************************)
(* CubicExtField                                                           *)
(***************************************************************************)
new(c0, c1, c2) == [c0 |-> c0, c1 |-> c1, c2 |-> c2]

Elements(P) == [c0 : BaseField(P), c1 : BaseField(P), c2 : BaseField(P)]

zero(P) == new(Fp_zero, Fp_zero, Fp_zero)

is_zero(self) ==
    Fp_is_zero(self.c0) /\ Fp_is_zero(self.c1) /\ Fp_is_zero(self.c2)

one(P) == new(Fp_one(P), Fp_zero, Fp_zero)

\* is_odd without the zero tests on the more significant coefficients.
is_odd_any(self) ==
    Fp_is_odd(self.c2) \/ Fp_is_odd(self.c1) \/ Fp_is_odd(self.c0)

is_odd(self) ==
    \/ Fp_is_odd(self.c2)
    \/ (Fp_is_zero(self.c2) /\ Fp_is_odd(self.c1))
    \/ (Fp_is_zero(self.c2) /\ Fp_is_zero(self.c1) /\ Fp_is_odd(self.c0))

double_in_place(P, self) ==
    new(Fp_double(P, self.c0), Fp_double(P, self.c1), Fp_double(P, self.c2))

mul_assign_by_basefield(P, self, value) ==
    new(Fp_mul(P, self.c0, value), Fp_mul(P, self.c1, value),
        Fp_mul(P, self.c2, value))

\* add_assign that leaves c2 as it was.
add_assign_no_c2(P, self, other) ==
    new(Fp_add(P, self.c0, other.c0), Fp_add(P, self.c1, other.c1), self.c2)

add_assign(P, self, other) ==
    new(Fp_add(P, self.c0, other.c0), Fp_add(P, self.c1, other.c1),
        Fp_add(P, self.c2, other.c2))

sub_assign(P, self, other) ==
    new(Fp_sub(P, self.c0, other.c0), Fp_sub(P, self.c1, other.c1),
        Fp_sub(P, self.c2, other.c2))

neg(P, self) ==
    new(Fp_neg(P, self.c0), Fp_neg(P, self.c1), Fp_neg(P, self.c2))

\* Karatsuba multiplication with the sign of be in z slipped.
mul_assign_sign(P, self, other) ==
    LET a == other.c0
        b == other.c1
        c == other.c2
        d == self.c0
        e == self.c1
        f == self.c2
        ad == Fp_mul(P, d, a)
        be == Fp_mul(P, e, b)
        cf == Fp_mul(P, f, c)
        x == Fp_sub(P, Fp_sub(P, Fp_mul(P, Fp_add(P, e, f), Fp_add(P, b, c)),
                              be), cf)
        y == Fp_sub(P, Fp_sub(P, Fp_mul(P, Fp_add(P, d, e), Fp_add(P, a, b)),
                              ad), be)
        z == Fp_sub(P, Fp_sub(P,
                 Fp_sub(P, Fp_mul(P, Fp_add(P, d, f), Fp_add(P, a, c)), ad),
                 be), cf)
    IN  new(Fp_add(P, ad, mul_base_field_by_nonresidue(P, x)),
            Fp_add(P, y, mul_base_field_by_nonresidue(P, cf)),
            z)

\* Karatsuba multiplication.
mul_assign(P, self, other) ==
    LET a == other.c0
        b == other.c1
        c == other.c2
        d == self.c0
        e == self.c1
        f == self.c2
        ad == Fp_mul(P, d, a)
        be == Fp_mul(P, e, b)
        cf == Fp_mul(P, f, c)
        x == Fp_sub(P, Fp_sub(P, Fp_mul(P, Fp_add(P, e, f), Fp_add(P, b, c)),
                              be), cf)
        y == Fp_sub(P, Fp_sub(P, Fp_mul(P, Fp_add(P, d, e), Fp_add(P, a, b)),
                              ad), be)
        z == Fp_sub(P, Fp_add(P,
                 Fp_sub(P, Fp_mul(P, Fp_add(P, d, f), Fp_add(P, a, c)), ad),
                 be), cf)
    IN  new(Fp_add(P, ad, mul_base_field_by_nonresidue(P, x)),
            Fp_add(P, y, mul_base_field_by_nonresidue(P, cf)),
            z)

\* Add::add and Mul::mul: the in-place operation on a copy.
add(P, self, other) == add_assign(P, self, other)

mul(P, self, other) == mul_assign(P, self, other)

\* CH-SQR2 squaring with s4 not subtracted in c2.
square_in_place_no_s4(P, self) ==
    LET a == self.c0
        b == self.c1
        c == self.c2
        s0 == Fp_square(P, a)
        ab == Fp_mul(P, a, b)
        s1 == Fp_double(P, ab)
        s2 == Fp_square(P, Fp_add(P, Fp_sub(P, a, b), c))
        bc == Fp_mul(P, b, c)
        s3 == Fp_double(P, bc)
        s4 == Fp_square(P, c)
    IN  new(Fp_add(P, s0, mul_base_field_by_nonresidue(P, s3)),
            Fp_add(P, s1, mul_base_field_by_nonresidue(P, s4)),
            Fp_sub(P, Fp_add(P, Fp_add(P, s1, s2), s3), s0))

\* CH-SQR2 squaring.
square_in_place(P, self) ==
    LET a == self.c0
        b == self.c1
        c == self.c2
        s0 == Fp_square(P, a)
        ab == Fp_mul(P, a, b)
        s1 == Fp_double(P, ab)
        s2 == Fp_square(P, Fp_add(P, Fp_sub(P, a, b), c))
        bc == Fp_mul(P, b, c)
        s3 == Fp_double(P, bc)
        s4 == Fp_square(P, c)
    IN  new(Fp_add(P, s0, mul_base_field_by_nonresidue(P, s3)),
            Fp_add(P, s1, mul_base_field_by_nonresidue(P, s4)),
            Fp_sub(P, Fp_sub(P, Fp_add(P, Fp_add(P, s1, s2), s3), s0), s4))

\* Inversion with s2 = t1 * t4, the formula as misprinted in the paper.
inverse_paper_typo(P, self) ==
    IF Fp_is_zero(self.c0) /\ Fp_is_zero(self.c1) /\ Fp_is_zero(self.c2)
    THEN [tag |-> "None"]
    ELSE
      LET t0 == Fp_square(P, self.c0)
          t1 == Fp_square(P, self.c1)
          t2 == Fp_square(P, self.c2)
          t3 == Fp_mul(P, self.c0, self.c1)
          t4 == Fp_mul(P, self.c0, self.c2)
          t5 == Fp_mul(P, self.c1, self.c2)
          n5 == mul_base_field_by_nonresidue(P, t5)
          s0 == Fp_sub(P, t0, n5)
          s1 == Fp_sub(P, mul_base_field_by_nonresidue(P, t2), t3)
          s2 == Fp_mul(P, t1, t4)
          a1 == Fp_mul(P, self.c2, s1)
          a2 == Fp_mul(P, self.c1, s2)
          a3 == mul_base_field_by_nonresidue(P, Fp_add(P, a1, a2))
          t6 == Fp_inverse_in_place(P, Fp_add(P, Fp_mul(P, self.c0, s0), a3))
      IN  [tag |-> "Some",
           val |-> new(Fp_mul(P, t6, s0), Fp_mul(P, t6, s1), Fp_mul(P, t6, s2))]

\* Inversion with one base field inversion; an Option.
inverse(P, self) ==
    IF is_zero(self) THEN [tag |-> "None"]
    ELSE
      LET t0 == Fp_square(P, self.c0)
          t1 == Fp_square(P, self.c1)
          t2 == Fp_square(P, self.c2)
          t3 == Fp_mul(P, self.c0, self.c1)
          t4 == Fp_mul(P, self.c0, self.c2)
          t5 == Fp_mul(P, self.c1, self.c2)
          n5 == mul_base_field_by_nonresidue(P, t5)
          s0 == Fp_sub(P, t0, n5)
          s1 == Fp_sub(P, mul_base_field_by_nonresidue(P, t2), t3)
          s2 == Fp_sub(P, t1, t4)
          a1 == Fp_mul(P, self.c2, s1)
          a2 == Fp_mul(P, self.c1, s2)
          a3 == mul_base_field_by_nonresidue(P, Fp_add(P, a1, a2))
          t6 == Fp_inverse_in_place(P, Fp_add(P, Fp_mul(P, self.c0, s0), a3))
      IN  [tag |-> "Some",
           val |-> new(Fp_mul(P, t6, s0), Fp_mul(P, t6, s1), Fp_mul(P, t6, s2))]

\* frobenius_map that leaves out the multiplication by the coefficients.
frobenius_map_no_coeff(P, self, power) ==
    new(Fp_frobenius_map(P, self.c0, power),
        Fp_frobenius_map(P, self.c1, power),
        Fp_frobenius_map(P, self.c2, power))

\* inverse_in_place: self becomes its inverse when there is one.  The result
\* is the element afterwards and whether Some or None was returned.
inverse_in_place(P, self) ==
    LET r == inverse(P, self) IN
    IF r.tag = "Some" THEN [tag |-> "Some", self |-> r.val]
    ELSE [tag |-> "None", self |-> self]

\* div_assign: self.mul_assign(&other.inverse().unwrap()); the unwrap of None
\* panics and self is left as it was.
div_assign(P, self, other) ==
    LET r == inverse(P, other) IN
    IF r.tag = "Some" THEN [tag |-> "Ok", self |-> mul_assign(P, self, r.val)]
    ELSE [tag |-> "Panic", self |-> self]

frobenius_map(P, self, power) ==
    LET c0 == Fp_frobenius_map(P, self.c0, power)
        c1 == Fp_frobenius_map(P, self.c1, power)
        c2 == Fp_frobenius_map(P, self.c2, power)
        hk == mul_base_field_by_frob_coeff(P, c1, c2, power)
    IN  new(c0, hk.c1, hk.c2)

\* norm that takes the first Frobenius conjugate twice.
norm_same_power(P, self) ==
    LET self_to_p  == frobenius_map(P, self, 1)
        self_to_p2 == frobenius_map(P, self, 1)
        prod == mul_assign(P, self_to_p, mul_assign(P, self_to_p2, self))
    IN  IF Fp_is_zero(prod.c1) /\ Fp_is_zero(prod.c2)
        THEN [panic |-> FALSE, val |-> prod.c0]
        ELSE [panic |-> TRUE]

\* The norm with respect to the base field.  The assertion of the code is
\* the field `panic` of the result.
norm(P, self) ==
    LET self_to_p  == frobenius_map(P, self, 1)
        self_to_p2 == frobenius_map(P, self, 2)
        prod == mul_assign(P, self_to_p, mul_assign(P, self_to_p2, self))
    IN  IF Fp_is_zero(prod.c1) /\ Fp_is_zero(prod.c2)
        THEN [panic |-> FALSE, val |-> prod.c0]
        ELSE [panic |-> TRUE]

\* cmp that looks at c0 first and at c2 last.
cmp_c0_first(self, other) ==
    LET c2_cmp == Fp_cmp(self.c2, other.c2)
        c1_cmp == Fp_cmp(self.c1, other.c1)
        c0_cmp == Fp_cmp(self.c0, other.c0)
    IN  IF c0_cmp = "Equal"
        THEN IF c1_cmp = "Equal" THEN c2_cmp ELSE c1_cmp
        ELSE c0_cmp

\* Ord::cmp.
cmp(self, other) ==
    LET c2_cmp == Fp_cmp(self.c2, other.c2)
        c1_cmp == Fp_cmp(self.c1, other.c1)
        c0_cmp == Fp_cmp(self.c0, other.c0)
    IN  IF c2_cmp = "Equal"
        THEN IF c1_cmp = "Equal" THEN c0_cmp ELSE c1_cmp
        ELSE c2_cmp

\* ToBytes::write: the writer after the three encodings were appended.
write(P, self, writer) ==
    Fp_write(P, self.c2, Fp_write(P, self.c1, Fp_write(P, self.c0, writer)))

\* FromBytes::read.
read(P, reader) ==
    LET r0 == Fp_read(P, reader) IN
    IF r0.tag = "Err" THEN r0
    ELSE LET r1 == Fp_read(P, r0.rest) IN
         IF r1.tag = "Err" THEN r1
         ELSE LET r2 == Fp_read(P, r1.rest) IN
              IF r2.tag = "Err" THEN r2
              ELSE [tag |-> "Ok", val |-> new(r0.val, r1.val, r2.val)]

\* ToBits::write_bits.
write_bits(P, self) ==
    Fp_write_bits(P, self.c0) \o Fp_write_bits(P, self.c1)
        \o Fp_write_bits(P, self.c2)

\* read_bits that takes c2 from the slice of c1.
read_bits_same_slice(P, bits) ==
    LET size == (DEGREE_OVER_BASE_PRIME_FIELD \div 3) * MODULUS_BITS(P)
        len  == Len(bits)
    IN  IF size > len THEN [tag |-> "Panic"]
        ELSE LET r0 == Fp_read_bits(P, SubSeq(bits, 1, size)) IN
             IF r0.tag = "Err" THEN r0
             ELSE IF 2 * size > len THEN [tag |-> "Panic"]
             ELSE LET r1 == Fp_read_bits(P, SubSeq(bits, size + 1, 2 * size)) IN
                  IF r1.tag = "Err" THEN r1
                  ELSE LET r2 == Fp_read_bits(P, SubSeq(bits, size + 1, 2 * size))
                       IN  IF r2.tag = "Err" THEN r2
                           ELSE [tag |-> "Ok",
                                 val |-> new(r0.val, r1.val, r2.val)]

\* FromBits::read_bits.  A slice whose end is past the vector, bits[..size]
\* or bits[size..(2*size)], panics.
read_bits(P, bits) ==
    LET size == (DEGREE_OVER_BASE_PRIME_FIELD \div 3) * MODULUS_BITS(P)
        len  == Len(bits)
    IN  IF size > len THEN [tag |-> "Panic"]
        ELSE LET r0 == Fp_read_bits(P, SubSeq(bits, 1, size)) IN
             IF r0.tag = "Err" THEN r0
             ELSE IF 2 * size > len THEN [tag |-> "Panic"]
             ELSE LET r1 == Fp_read_bits(P, SubSeq(bits, size + 1, 2 * size)) IN
                  IF r1.tag = "Err" THEN r1
                  ELSE LET r2 == Fp_read_bits(P, SubSeq(bits, 2 * size + 1, len))
                       IN  IF r2.tag = "Err" THEN r2
                           ELSE [tag |-> "Ok",
                                 val |-> new(r0.val, r1.val, r2.val)]

(***************************************************************************)
(* State.  The operations are pure functions of their operands and of the  *)
(* parameterization; the state holds the operands, the operation applied   *)
(* last and what it returned.                                              *)
(***************************************************************************)
VARIABLES
    P,      \* the parameterization (type parameter P: CubicExtParameters)
    va,     \* the element operated on (self); in-place operations change it
    vb,     \* the second operand (other)
    vc,     \* a third element, for the three-element ring laws
    old,    \* va before the last in-place operation
    op,     \* the operation applied last
    out,    \* what the last operation returned
    bits,   \* a bit vector (Vec<bool>)
    bytes   \* a byte stream (the writer's contents, then the reader's)

vars == <<P, va, vb, vc, old, op, out, bits, bytes>>

\* The toy field of the concrete scenarios: Z/13 with NONRESIDUE = 5.
ToyParams == Parameters(13, 5)

\* A parameterization is valid when X^3 - NONRESIDUE has no root in the base
\* field, that is, when it is irreducible.
Irreducible(Q) ==
    \A r \in BaseField(Q) : Fp_mul(Q, r, Fp_mul(Q, r, r)) /= Q.NONRESIDUE

(***************************************************************************)
(* One-operand operations.                                                 *)
(***************************************************************************)
Init ==
    /\ \/ /\ P \in Params(MaxPrimeIdx)
          /\ va \in Elements(P)
       \/ /\ P = ToyParams
          /\ va \in {new(1, 2, 3), new(3, 0, 0), new(4, 0, 1)}
    /\ vb = zero(P)
    /\ vc = zero(P)
    /\ old = va
    /\ op = "new"
    /\ out = <<>>
    /\ bits = <<>>
    /\ bytes = <<>>

\* An operation that is no codec leaves no encoding behind.
NoBuffers == bits' = <<>> /\ bytes' = <<>>

SquareInPlace ==
    /\ old' = va
    /\ va' = square_in_place(P, va)
    /\ op' = "square_in_place"
    /\ out' = <<>>
    /\ NoBuffers
    /\ UNCHANGED <<P, vb, vc>>

Inverse ==
    /\ old' = va
    /\ op' = "inverse"
    /\ out' = inverse(P, va)
    /\ NoBuffers
    /\ UNCHANGED <<P, va, vb, vc>>

InverseInPlace ==
    /\ old' = va
    /\ va' = inverse_in_place(P, va).self
    /\ op' = "inverse_in_place"
    /\ out' = [tag |-> inverse_in_place(P, va).tag]
    /\ NoBuffers
    /\ UNCHANGED <<P, vb, vc>>

DoubleInPlace ==
    /\ old' = va
    /\ va' = double_in_place(P, va)
    /\ op' = "double_in_place"
    /\ out' = <<>>
    /\ NoBuffers
    /\ UNCHANGED <<P, vb, vc>>

\* frobenius_map(1).  out counts the consecutive applications since old, up
\* to the degree of the extension; then a new run starts.
FrobeniusMap ==
    /\ IF op = "frobenius_map" /\ out < DEGREE_OVER_BASE_PRIME_FIELD
       THEN out' = out + 1 /\ old' = old
       ELSE out' = 1 /\ old' = va
    /\ va' = frobenius_map(P, va, 1)
    /\ op' = "frobenius_map"
    /\ NoBuffers
    /\ UNCHANGED <<P, vb, vc>>

Norm ==
    /\ old' = va
    /\ op' = "norm"
    /\ out' = norm(P, va)
    /\ NoBuffers
    /\ UNCHANGED <<P, va, vb, vc>>

Neg ==
    /\ old' = va
    /\ va' = neg(P, va)
    /\ op' = "neg"
    /\ out' = <<>>
    /\ NoBuffers
    /\ UNCHANGED <<P, vb, vc>>

IsOdd ==
    /\ old' = va
    /\ op' = "is_odd"
    /\ out' = is_odd(va)
    /\ NoBuffers
    /\ UNCHANGED <<P, va, vb, vc>>

WriteBits ==
    /\ old' = va
    /\ op' = "write_bits"
    /\ bits' = write_bits(P, va)
    /\ bytes' = <<>>
    /\ out' = <<>>
    /\ UNCHANGED <<P, va, vb, vc>>

\* read_bits of the vector written last, or of the input vector.
ReadBits ==
    /\ op \in {"write_bits", "input"}
    /\ op' = "read_bits"
    /\ out' = read_bits(P, bits)
    /\ UNCHANGED <<P, va, vb, vc, old, bits, bytes>>

Write ==
    /\ old' = va
    /\ op' = "write"
    /\ bytes' = write(P, va, <<>>)
    /\ bits' = <<>>
    /\ out' = <<>>
    /\ UNCHANGED <<P, va, vb, vc>>

\* read of the stream written last.
Read ==
    /\ op = "write"
    /\ op' = "read"
    /\ out' = read(P, bytes)
    /\ UNCHANGED <<P, va, vb, vc, old, bits, bytes>>

Next ==
    \/ SquareInPlace
    \/ Inverse
    \/ InverseInPlace
    \/ DoubleInPlace
    \/ FrobeniusMap
    \/ Norm
    \/ Neg
    \/ IsOdd
    \/ WriteBits
    \/ ReadBits
    \/ Write
    \/ Read

Spec == Init /\ [][Next]_vars

(***************************************************************************)
(* Two-operand operations.                                                 *)
(***************************************************************************)
\* The operands of the two-operand operations: every element over the fields
\* up to Z/5, the ones with coefficients 0, 1, 2, p-2 and p-1 over larger
\* fields.
Coeffs2(Q) ==
    {k \in BaseField(Q) : k <= 2 \/ k >= Q.MODULUS - 2}

Elements2(Q) == [c0 : Coeffs2(Q), c1 : Coeffs2(Q), c2 : Coeffs2(Q)]

InitBinary ==
    /\ \/ /\ P \in Params(MaxPrimeIdx2)
          /\ va \in Elements2(P)
          /\ vb \in Elements2(P)
       \/ /\ P = ToyParams
          /\ va = new(1, 2, 3)
          /\ vb \in {new(4, 0, 1), new(1, 2, 3)}
    /\ vc = zero(P)
    /\ old = va
    /\ op = "new"
    /\ out = <<>>
    /\ bits = <<>>
    /\ bytes = <<>>

MulAssign ==
    /\ old' = va
    /\ va' = mul_assign(P, va, vb)
    /\ op' = "mul_assign"
    /\ out' = <<>>
    /\ UNCHANGED <<P, vb, vc, bits, bytes>>

AddAssign ==
    /\ old' = va
    /\ va' = add_assign(P, va, vb)
    /\ op' = "add_assign"
    /\ out' = <<>>
    /\ UNCHANGED <<P, vb, vc, bits, bytes>>

SubAssign ==
    /\ old' = va
    /\ va' = sub_assign(P, va, vb)
    /\ op' = "sub_assign"
    /\ out' = <<>>
    /\ UNCHANGED <<P, vb, vc, bits, bytes>>

\* mul_assign_by_basefield(&value), the value being the c0 of the other
\* element.
MulAssignByBasefield ==
    /\ old' = va
    /\ va' = mul_assign_by_basefield(P, va, vb.c0)
    /\ op' = "mul_assign_by_basefield"
    /\ out' = <<>>
    /\ UNCHANGED <<P, vb, vc, bits, bytes>>

DivAssign ==
    /\ old' = va
    /\ va' = div_assign(P, va, vb).self
    /\ op' = "div_assign"
    /\ out' = [tag |-> div_assign(P, va, vb).tag]
    /\ UNCHANGED <<P, vb, vc, bits, bytes>>

NextBinary ==
    \/ MulAssign
    \/ AddAssign
    \/ SubAssign
    \/ MulAssignByBasefield
    \/ DivAssign

SpecBinary == InitBinary /\ [][NextBinary]_vars

(***************************************************************************)
(* Three elements: the ring laws and the order.  Each action evaluates the *)
(* two sides of one law, or the comparisons among the three elements.      *)
(***************************************************************************)
\* The elements of the three-element checks: all of them over Z/2 and Z/3,
\* the ones with coefficients 0, 1 and p-1 over larger fields.
Coeffs3(Q) ==
    {k \in BaseField(Q) : k <= 1 \/ k = Q.MODULUS - 1}

Elements3(Q) == [c0 : Coeffs3(Q), c1 : Coeffs3(Q), c2 : Coeffs3(Q)]

InitRing ==
    /\ P \in Params(MaxPrimeIdx3)
    /\ va \in Elements3(P)
    /\ vb \in Elements3(P)
    /\ vc \in Elements3(P)
    /\ old = va
    /\ op = "new"
    /\ out = <<>>
    /\ bits = <<>>
    /\ bytes = <<>>

AddCommutes ==
    /\ op = "new"
    /\ op' = "add_commutes"
    /\ out' = [lhs |-> add(P, va, vb), rhs |-> add(P, vb, va)]
    /\ UNCHANGED <<P, va, vb, vc, old, bits, bytes>>

AddAssociates ==
    /\ op = "new"
    /\ op' = "add_associates"
    /\ out' = [lhs |-> add(P, add(P, va, vb), vc),
               rhs |-> add(P, va, add(P, vb, vc))]
    /\ UNCHANGED <<P, va, vb, vc, old, bits, bytes>>

AddZero ==
    /\ op = "new"
    /\ op' = "add_zero"
    /\ out' = [lhs |-> add(P, va, zero(P)), rhs |-> va]
    /\ UNCHANGED <<P, va, vb, vc, old, bits, bytes>>

MulAssociates ==
    /\ op = "new"
    /\ op' = "mul_associates"
    /\ out' = [lhs |-> mul(P, va, mul(P, vb, vc)),
               rhs |-> mul(P, mul(P, va, vb), vc)]
    /\ UNCHANGED <<P, va, vb, vc, old, bits, bytes>>

Distributes ==
    /\ op = "new"
    /\ op' = "distributes"
    /\ out' = [lhs |-> mul(P, va, add(P, vb, vc)),
               rhs |-> add(P, mul(P, va, vb), mul(P, va, vc))]
    /\ UNCHANGED <<P, va, vb, vc, old, bits, bytes>>

MulOne ==
    /\ op = "new"
    /\ op' = "mul_one"
    /\ out' = [lhs |-> mul(P, va, one(P)), rhs |-> va]
    /\ UNCHANGED <<P, va, vb, vc, old, bits, bytes>>

Cmp ==
    /\ op = "new"
    /\ op' = "cmp"
    /\ out' = [ab |-> cmp(va, vb), ba |-> cmp(vb, va),
               bc |-> cmp(vb, vc), ac |-> cmp(va, vc)]
    /\ UNCHANGED <<P, va, vb, vc, old, bits, bytes>>

NextRing ==
    \/ AddCommutes
    \/ AddAssociates
    \/ AddZero
    \/ MulAssociates
    \/ Distributes
    \/ MulOne
    \/ Cmp

SpecRing == InitRing /\ [][NextRing]_vars

(***************************************************************************)
(* The bit decoder on arbitrary bit vectors.                               *)
(***************************************************************************)
\* Every bit vector of the given length.
BitVectors(n) == [1..n -> BOOLEAN]

\* The width of one component in the bit form.
ComponentBits(Q) == (DEGREE_OVER_BASE_PRIME_FIELD \div 3) * MODULUS_BITS(Q)

InitBits ==
    /\ P \in Params(MaxPrimeIdxBits)
    /\ \E n \in 0..(3 * ComponentBits(P) + MaxExtraBits) :
          bits \in BitVectors(n)
    /\ va = zero(P)
    /\ vb = zero(P)
    /\ vc = zero(P)
    /\ old = va
    /\ op = "input"
    /\ out = <<>>
    /\ bytes = <<>>

NextBits == ReadBits

SpecBits == InitBits /\ [][NextBits]_vars

(***************************************************************************)
(* Reference definitions for the properties: plain integer arithmetic on   *)
(* polynomials, independent of the algorithms above.                       *)
(***************************************************************************)
\* (u.c0 + u.c1 X + u.c2 X^2)(v.c0 + v.c1 X + v.c2 X^2) mod (X^3 - NONRESIDUE)
\* by the schoolbook product: X^3 = NONRESIDUE, X^4 = NONRESIDUE X.
PolyMulMod(Q, u, v) ==
    LET k0 == u.c0 * v.c0
        k1 == u.c0 * v.c1 + u.c1 * v.c0
        k2 == u.c0 * v.c2 + u.c1 * v.c1 + u.c2 * v.c0
        k3 == u.c1 * v.c2 + u.c2 * v.c1
        k4 == u.c2 * v.c2
    IN  [c0 |-> (k0 + Q.NONRESIDUE * k3) % Q.MODULUS,
         c1 |-> (k1 + Q.NONRESIDUE * k4) % Q.MODULUS,
         c2 |-> k2 % Q.MODULUS]

RECURSIVE PolyPow(_, _, _)
\* u to the n-th power in the quotient ring.
PolyPow(Q, u, n) ==
    IF n = 0 THEN [c0 |-> 1 % Q.MODULUS, c1 |-> 0, c2 |-> 0]
    ELSE LET h == PolyPow(Q, u, n \div 2)
             hh == PolyMulMod(Q, h, h)
         IN  IF n % 2 = 1 THEN PolyMulMod(Q, hh, u) ELSE hh

\* The position of an element in the lexicographic order, c2 most significant.
LexKey(Q, u) == (u.c2 * Q.MODULUS + u.c1) * Q.MODULUS + u.c0

Reverse(o) ==
    IF o = "Less" THEN "Greater" ELSE IF o = "Greater" THEN "Less" ELSE "Equal"

\* Parity of the most significant non-zero coefficient.
TopParity(u) ==
    IF u.c2 /= 0 THEN u.c2 % 2 = 1
    ELSE IF u.c1 /= 0 THEN u.c1 % 2 = 1
    ELSE u.c0 % 2 = 1

(***************************************************************************)
(* Properties.                                                             *)
(***************************************************************************)
\* C1: mul_assign returns the product of the two polynomials reduced modulo
\* X^3 - NONRESIDUE, for every base field and every NONRESIDUE value:
\* c0 = ad + nr(ec + fb), c1 = db + ea + nr fc, c2 = dc + eb + fa.
C1_MulIsPolynomialProduct ==
    op = "mul_assign" => va = PolyMulMod(P, old, vb)

\* The toy scenario: (1,2,3)(4,0,1) = (1,10,0) over Z/13 with NONRESIDUE 5.
C1_Witness ==
    /\ op = "mul_assign"
    /\ P = ToyParams
    /\ old = new(1, 2, 3)
    /\ vb = new(4, 0, 1)
    /\ va = new(1, 10, 0)

\* C2: when X^3 - NONRESIDUE is irreducible, inverse returns None exactly for
\* the zero element, Some(b) with a * b = one() otherwise, and for (k,0,0)
\* with k /= 0 the result is (1/k, 0, 0).
C2_InverseCorrect ==
    (op = "inverse" /\ Irreducible(P)) =>
        /\ out.tag = "None" <=> is_zero(va)
        /\ out.tag = "Some" =>
              /\ mul(P, va, out.val) = one(P)
              /\ PolyMulMod(P, va, out.val) = one(P)
              /\ (va.c1 = 0 /\ va.c2 = 0) =>
                    /\ out.val.c1 = 0
                    /\ out.val.c2 = 0
                    /\ (va.c0 * out.val.c0) % P.MODULUS = 1

C2_Witness ==
    /\ op = "inverse"
    /\ Irreducible(P)
    /\ va.c0 /= 0 /\ va.c1 /= 0 /\ va.c2 /= 0
    /\ out.tag = "Some"
    /\ out.val /= va
    /\ mul(P, va, out.val) = one(P)

\* C3: squaring by CH-SQR2 gives the same element as multiplying the element
\* by itself, for every base field and every NONRESIDUE value.
C3_SquareIsMul ==
    op = "square_in_place" => va = mul(P, old, old)

\* The toy scenario: (1,2,3)^2 = (9,10,10) over Z/13 with NONRESIDUE 5.
C3_Witness ==
    /\ op = "square_in_place"
    /\ P = ToyParams
    /\ old = new(1, 2, 3)
    /\ va = new(9, 10, 10)
    /\ va = mul(P, old, old)

\* C4: read_bits of a bit vector whose length is not three component widths
\* returns an Err value, whatever the length; it never aborts.
C4_WrongLengthIsErr ==
    (op = "read_bits" /\ Len(bits) /= 3 * ComponentBits(P)) => out.tag = "Err"

\* C5: decoding an encoding gives the element back, the bit form is the
\* concatenation of the three fixed-width encodings of c0, c1, c2 and the
\* byte form the concatenation of their three byte encodings.
C5_RoundTrip ==
    /\ op = "read_bits" => out = [tag |-> "Ok", val |-> va]
    /\ op = "read" => out = [tag |-> "Ok", val |-> va]
    /\ op \in {"write_bits", "read_bits"} =>
          /\ Len(bits) = 3 * ComponentBits(P)
          /\ BitsValue(SubSeq(bits, 1, ComponentBits(P))) = va.c0
          /\ BitsValue(SubSeq(bits, ComponentBits(P) + 1,
                              2 * ComponentBits(P))) = va.c1
          /\ BitsValue(SubSeq(bits, 2 * ComponentBits(P) + 1,
                              3 * ComponentBits(P))) = va.c2
    /\ op \in {"write", "read"} =>
          bytes = Fp_write(P, va.c0, <<>>) \o Fp_write(P, va.c1, <<>>)
                    \o Fp_write(P, va.c2, <<>>)

C5_Witness ==
    /\ op = "read_bits"
    /\ va.c0 /= 0 /\ va.c1 /= va.c0 /\ va.c2 /= va.c1 /\ va.c2 /= va.c0
    /\ bits = write_bits(P, va)
    /\ out = [tag |-> "Ok", val |-> va]

\* C6: the ring laws: a+b = b+a, (a+b)+c = a+(b+c), a+zero = a,
\* a*(b*c) = (a*b)*c, a*(b+c) = a*b + a*c, a*one = a.
C6_RingAxioms ==
    op \in {"add_commutes", "add_associates", "add_zero", "mul_associates",
            "distributes", "mul_one"} => out.lhs = out.rhs

C6_Witness ==
    /\ op = "distributes"
    /\ P.MODULUS > 2
    /\ P.NONRESIDUE > 1
    /\ va.c2 /= 0 /\ vb.c2 /= 0 /\ vc.c1 /= 0
    /\ vb /= vc
    /\ ~is_zero(out.lhs)
    /\ out.lhs = out.rhs

\* C7: cmp is the lexicographic order on (c2, c1, c0), c2 most significant:
\* a total order, Equal only between identical elements.
C7_LexicographicOrder ==
    op = "cmp" =>
        /\ out.ab = Fp_cmp(LexKey(P, va), LexKey(P, vb))
        /\ out.ab \in {"Less", "Equal", "Greater"}
        /\ out.ba = Reverse(out.ab)
        /\ out.ab = "Equal" <=> va = vb
        /\ (out.ab \in {"Less", "Equal"} /\ out.bc \in {"Less", "Equal"}) =>
              out.ac \in {"Less", "Equal"}
        /\ (out.ab = "Less" /\ out.bc \in {"Less", "Equal"}) => out.ac = "Less"
        /\ (out.ab \in {"Less", "Equal"} /\ out.bc = "Less") => out.ac = "Less"

\* c2 decides against c1 and c0.
C7_Witness ==
    /\ op = "cmp"
    /\ va.c2 < vb.c2 /\ va.c1 > vb.c1 /\ va.c0 > vb.c0
    /\ vb.c2 = vc.c2 /\ vb.c1 < vc.c1 /\ vb.c0 > vc.c0
    /\ out.ab = "Less" /\ out.bc = "Less" /\ out.ac = "Less"

\* C8: under a valid parameterization the product a * frobenius(a,1) *
\* frobenius(a,2) has c1 = c2 = 0: the assertion in norm never fails, and
\* norm returns the c0 of that product.
C8_NormInBaseField ==
    (op = "norm" /\ Irreducible(P)) =>
        /\ out.panic = FALSE
        /\ PolyPow(P, va, 1 + P.MODULUS + P.MODULUS * P.MODULUS)
              = new(out.val, 0, 0)

C8_Witness ==
    /\ op = "norm"
    /\ Irreducible(P)
    /\ va.c1 /= 0 /\ va.c2 /= 0
    /\ out.panic = FALSE
    /\ out.val > 1

\* C9: under a valid parameterization frobenius_map(1) raises to the p-th
\* power, and applied as many times as the degree of the extension over the
\* base prime field it gives the element back.
C9_FrobeniusIsPthPower ==
    (op = "frobenius_map" /\ Irreducible(P)) =>
        /\ va = PolyPow(P, old, IntPow(P.MODULUS, out))
        /\ out = DEGREE_OVER_BASE_PRIME_FIELD => va = old

C9_Witness ==
    /\ op = "frobenius_map"
    /\ Irreducible(P)
    /\ out = DEGREE_OVER_BASE_PRIME_FIELD
    /\ old.c1 /= 0 /\ old.c2 /= 0
    /\ frobenius_map(P, old, 1) /= old
    /\ va = old

\* C10: over a base field of odd characteristic is_odd is the parity of the
\* most significant non-zero coefficient: false for zero, and of a non-zero
\* element and its negation exactly one is odd.
C10_SignBit ==
    P.MODULUS % 2 = 1 =>
        /\ op = "is_odd" => out = TopParity(va)
        /\ (op = "is_odd" /\ is_zero(va)) => out = FALSE
        /\ (op = "neg" /\ ~is_zero(old)) => is_odd(old) /= is_odd(va)

\* A negation where the even, non-zero c2 decides and c1, c0 are odd.
C10_Witness ==
    /\ op = "neg"
    /\ P.MODULUS % 2 = 1
    /\ old.c2 /= 0 /\ old.c2 % 2 = 0
    /\ old.c1 % 2 = 1 /\ old.c0 % 2 = 1
    /\ ~is_odd(old)
    /\ is_odd(va)

====
